---- MODULE Spec2Model ----
(***************************************************************************)
(* Versioned configuration store of auto_config_tasks.                     *)
(*                                                                         *)
(* Two scripts share one MongoDB collection (config_db.config_data):       *)
(*   src/auto_config_save.py                  save without dedup           *)
(*   src/config_parser_versioned_rollback.py  save with dedup, rollback    *)
(* The model follows the second script and adds the first script's         *)
(* handler (auto_on_modified) where it differs.  Every MongoDB call and    *)
(* every file access is one atomic step; a handler is the sequence of its  *)
(* steps, so that calls of different clients interleave between them.      *)
(*                                                                         *)
(* The "timestamp" field of a record (datetime.utcnow()) is not modelled:  *)
(* no step of the program reads it back except to format it.               *)
(***************************************************************************)
EXTENDS Integers, Sequences, FiniteSets, TLC

(***************************************************************************)
(* Python values, as yaml.safe_load returns them.  Every value is a record *)
(* of the same shape: t is the type, n the integer, s the characters of a  *)
(* string, m the entries of a dict in insertion order (a sequence of       *)
(* [k, v]).  A dict keeps its insertion order in Python, in BSON and in    *)
(* MongoDB's match of an embedded document, so entries are a sequence.     *)
(***************************************************************************)
IntV(i) == [t |-> "int", n |-> i, s |-> <<>>, m |-> <<>>]

StrV(chars) == [t |-> "str", n |-> 0, s |-> chars, m |-> <<>>]

MapV(entries) == [t |-> "map", n |-> 0, s |-> <<>>, m |-> entries]

\* a non-empty list; its items are opaque (no code path looks into a list)
ListV == [t |-> "list", n |-> 0, s |-> <<"item">>, m |-> <<>>]

NoneV == [t |-> "none", n |-> 0, s |-> <<>>, m |-> <<>>]

\* the exception object of a raise, where a function returns it instead
RaiseV == [t |-> "raise", n |-> 0, s |-> <<>>, m |-> <<>>]

Entry(key, val) == [k |-> key, v |-> val]

\* Python truthiness: `if data:`
Truthy(x) ==
    CASE x.t = "int" -> x.n /= 0
      [] x.t = "str" -> x.s /= <<>>
      [] x.t = "map" -> x.m /= <<>>
      [] x.t = "list" -> TRUE
      [] OTHER -> FALSE

(***************************************************************************)
(* Characters.  "sup2" stands for the character U+00B2 (superscript two):  *)
(* str.isdigit() accepts it, int() does not.                               *)
(***************************************************************************)
DecimalChars == {"0", "1", "2", "3", "4", "5", "6", "7", "8", "9"}

DigitChars == DecimalChars \cup {"sup2"}

DigitVal(ch) ==
    CASE ch = "0" -> 0 [] ch = "1" -> 1 [] ch = "2" -> 2 [] ch = "3" -> 3
      [] ch = "4" -> 4 [] ch = "5" -> 5 [] ch = "6" -> 6 [] ch = "7" -> 7
      [] ch = "8" -> 8 [] ch = "9" -> 9

DigitChar(d) ==
    CASE d = 0 -> "0" [] d = 1 -> "1" [] d = 2 -> "2" [] d = 3 -> "3"
      [] d = 4 -> "4" [] d = 5 -> "5" [] d = 6 -> "6" [] d = 7 -> "7"
      [] d = 8 -> "8" [] d = 9 -> "9"

\* str.isdigit(): non-empty and every character is a digit
isdigit(chars) ==
    /\ chars /= <<>>
    /\ \A i \in 1..Len(chars) : chars[i] \in DigitChars

RECURSIVE BaseValue(_, _)
BaseValue(chars, base) ==
    IF chars = <<>> THEN 0
    ELSE BaseValue(SubSeq(chars, 1, Len(chars) - 1), base) * base
         + DigitVal(chars[Len(chars)])

\* mutant: a string of several digits loses its first digit and stays a string
int_drops_first_digit(chars) ==
    IF Len(chars) > 1 THEN [t |-> "str", n |-> 0, s |-> Tail(chars), m |-> <<>>]
    ELSE [t |-> "int", n |-> BaseValue(chars, 10), s |-> <<>>, m |-> <<>>]

\* int(v) of a string that passed isdigit(): ValueError on a non-decimal digit
int(chars) ==
    IF \A i \in 1..Len(chars) : chars[i] \in DecimalChars
    THEN IntV(BaseValue(chars, 10))
    ELSE RaiseV

RECURSIVE str(_)
\* str(i) of a non-negative integer
str(i) ==
    IF i < 10 THEN <<DigitChar(i)>>
    ELSE Append(str(i \div 10), DigitChar(i % 10))

(***************************************************************************)
(* convert_numeric_values: in a dict, a string value that isdigit()        *)
(* becomes int(v), a dict value is converted in place, anything else       *)
(* (lists included) stays; a value that is no dict is returned as it is.   *)
(* The ValueError of int() escapes the function: the result is RaiseV.     *)
(***************************************************************************)
RECURSIVE convert_entries(_)
convert_numeric_values(data) ==
    IF data.t = "map"
    THEN LET es == convert_entries(data.m)
         IN  IF \E i \in 1..Len(es) : es[i].v = RaiseV THEN RaiseV
             ELSE MapV(es)
    ELSE data

convert_entries(es) ==
    IF es = <<>> THEN <<>>
    ELSE LET e == es[1]
             nv == IF e.v.t = "map" THEN convert_numeric_values(e.v)
                   ELSE IF e.v.t = "str" /\ isdigit(e.v.s) THEN int(e.v.s)
                   ELSE e.v
         IN  <<Entry(e.k, nv)>> \o convert_entries(Tail(es))

(***************************************************************************)
(* The configuration file's text, as YAML nodes: a plain or a quoted       *)
(* scalar, a block mapping (entries in file order), a block sequence, the  *)
(* empty file, or text that is no YAML.  Nodes have one shape, like        *)
(* values.                                                                 *)
(***************************************************************************)
PlainY(chars) == [y |-> "plain", s |-> chars, m |-> <<>>]

QuotedY(chars) == [y |-> "quoted", s |-> chars, m |-> <<>>]

MapY(entries) == [y |-> "map", s |-> <<>>, m |-> entries]

SeqY == [y |-> "seq", s |-> <<"item">>, m |-> <<>>]

EmptyFile == [y |-> "empty", s |-> <<>>, m |-> <<>>]

BadYaml == [y |-> "bad", s |-> <<>>, m |-> <<>>]

\* the resolver's integer patterns over the model's characters: 0 or a
\* decimal without leading zero; a leading zero followed by octal digits
IsDecimalInt(chars) ==
    /\ chars /= <<>>
    /\ \A i \in 1..Len(chars) : chars[i] \in DecimalChars
    /\ (Len(chars) > 1 => chars[1] /= "0")

IsOctalInt(chars) ==
    /\ Len(chars) > 1
    /\ chars[1] = "0"
    /\ \A i \in 1..Len(chars) : chars[i] \in {"0", "1", "2", "3", "4", "5", "6", "7"}

\* the value of a plain scalar
Resolve(chars) ==
    IF IsDecimalInt(chars) THEN IntV(BaseValue(chars, 10))
    ELSE IF IsOctalInt(chars) THEN IntV(BaseValue(chars, 8))
    ELSE IF chars = <<>> THEN NoneV
    ELSE StrV(chars)

RECURSIVE load_entries(_)
\* yaml.safe_load of a file's text; RaiseV for a YAMLError
safe_load(node) ==
    CASE node.y = "plain" -> Resolve(node.s)
      [] node.y = "quoted" -> StrV(node.s)
      [] node.y = "map" -> MapV(load_entries(node.m))
      [] node.y = "seq" -> ListV
      [] node.y = "empty" -> NoneV
      [] OTHER -> RaiseV

load_entries(es) ==
    IF es = <<>> THEN <<>>
    ELSE <<Entry(es[1].k, safe_load(es[1].v))>> \o load_entries(Tail(es))

\* the keys of the model's documents, in the order sorted() gives them
KeyOrder == <<"a", "b", "p", "s">>

KeyRank(key) == CHOOSE i \in 1..Len(KeyOrder) : KeyOrder[i] = key

RECURSIVE SortEntries(_)
\* the entries sorted by key (yaml.dump's sort_keys=True); keys are unique
SortEntries(es) ==
    IF es = <<>> THEN <<>>
    ELSE LET i == CHOOSE j \in 1..Len(es) :
                    \A l \in 1..Len(es) : KeyRank(es[j].k) <= KeyRank(es[l].k)
             rest == [l \in 1..(Len(es) - 1) |-> IF l < i THEN es[l] ELSE es[l + 1]]
         IN  <<es[i]>> \o SortEntries(rest)

RECURSIVE dump_entries(_)
\* yaml.dump(config, default_flow_style=False): a mapping's keys are written
\* sorted, an int as its decimal digits, a string plain unless the plain
\* text would resolve to something else than that string
yaml_dump(val) ==
    CASE val.t = "int" -> PlainY(str(val.n))
      [] val.t = "str" -> IF Resolve(val.s) = StrV(val.s) THEN PlainY(val.s)
                          ELSE QuotedY(val.s)
      [] val.t = "map" -> MapY(dump_entries(SortEntries(val.m)))
      [] val.t = "list" -> SeqY
      [] OTHER -> PlainY(<<"n", "u", "l", "l">>)

dump_entries(es) ==
    IF es = <<>> THEN <<>>
    ELSE <<Entry(es[1].k, yaml_dump(es[1].v))>> \o dump_entries(Tail(es))

(***************************************************************************)
(* Bounds and inputs.                                                      *)
(***************************************************************************)
\* the collection holds at most MaxRecords records
MaxRecords == 3

\* The clients: each is one thread of control of a running instance of a
\* script (its watchdog thread or one request of its Flask server).  The
\* caller is the client whose calls are looked at one by one: what a call
\* of its returned and printed is kept until it goes on (resume).  The
\* instances are the clients whose calls interleave; nothing is kept of a
\* call of theirs once it has returned.
Caller == "caller"

Instances == {"instance1", "instance2"}

Clients == {Caller} \cup Instances

\* the version numbers a rollback request names (/config/rollback/<int>)
Versions == 0..MaxRecords

\* the paths of the watched directory a notification names
CONFIG_FILE == "config.yaml"

Paths == {CONFIG_FILE, "sibling.yaml"}

\* what an editor writes into the configuration file (the files rollback
\* writes, with plain integers, come on top of these)
UserFiles ==
    { BadYaml,
      SeqY,
      MapY(<<>>),
      MapY(<<Entry("a", QuotedY(<<"1">>))>>),
      MapY(<<Entry("a", PlainY(<<"1">>))>>),
      MapY(<<Entry("b", PlainY(<<"x">>)), Entry("a", QuotedY(<<"2">>))>>),
      MapY(<<Entry("a", QuotedY(<<"sup2">>))>>) }

\* what an editor writes while the calls of two instances interleave
ConcFiles ==
    { MapY(<<Entry("a", QuotedY(<<"1">>))>>),
      MapY(<<Entry("b", PlainY(<<"x">>)), Entry("a", QuotedY(<<"2">>))>>) }

\* The documents convert_numeric_values is applied to, as the files they are
\* read from: mappings nested up to MaxDepth levels, with one or two keys at
\* a level, whose scalars are an integer, a string of digits and a string
\* that has no digit.
MaxDepth == 2

NormScalars == {PlainY(<<"1">>), QuotedY(<<"0", "7">>), PlainY(<<"x">>)}

RECURSIVE NormNodes(_)
NormNodes(depth) ==
    IF depth = 0 THEN NormScalars
    ELSE LET sub == NormNodes(depth - 1)
         IN  sub \cup {MapY(<<Entry("p", v)>>) : v \in sub}
                 \cup {MapY(<<Entry("p", v), Entry("s", w)>>) : v, w \in sub}

NormFiles == {node \in NormNodes(MaxDepth) : node.y = "map"}

(***************************************************************************)
(* State.                                                                  *)
(***************************************************************************)
VARIABLES
    collection,    \* config_db.config_data: the documents, in insertion order
    file,          \* the text of CONFIG_FILE
    observer,      \* observer[c]: the client's watchdog thread is running
    op,            \* op[c]: the entry point the client's call entered by
    pc,            \* pc[c]: "idle", the step the call is at, or "done"
    data,          \* local `data` of save_to_mongo / doc['config'] of rollback
    version,       \* parameter `version` of rollback_to_version
    next_version,  \* local `next_version`
    ret,           \* what the call returned
    out,           \* what the call printed
    before         \* history: the collection when the call was made

vars ==
    <<collection, file, observer, op, pc, data, version, next_version, ret, out, before>>

\* a stored document; rolled_back_from is <<>> when the document has no
\* such field and <<v>> when it has
Doc(ver, config, rbf) == [version |-> ver, config |-> config, rolled_back_from |-> rbf]

\* a dict of the API: fields are its keys; rolled_back_from is <<>> for
\* None and for a missing key
ApiDoc(ver, config, fields, rbf) ==
    [version |-> ver, config |-> config, fields |-> fields, rolled_back_from |-> rbf]

\* a message: its kind and the numbers formatted into it (0: none)
Msg(kind, v, nv) == [kind |-> kind, version |-> v, next_version |-> nv]

NoMsg == Msg("", 0, 0)

\* return values: None; the (success, message) of rollback_to_version; the
\* dict of fetch_latest_from_mongo ({} is docs = <<>>); the list of
\* fetch_all_versions
NoneRet == [t |-> "None", ok |-> FALSE, msg |-> NoMsg, docs |-> <<>>]

TupleRet(ok, msg) == [t |-> "tuple", ok |-> ok, msg |-> msg, docs |-> <<>>]

DictRet(docs) == [t |-> "dict", ok |-> FALSE, msg |-> NoMsg, docs |-> docs]

ListRet(docs) == [t |-> "list", ok |-> FALSE, msg |-> NoMsg, docs |-> docs]

Init ==
    /\ collection = <<>>
    /\ file \in UserFiles
    /\ observer = [c \in Clients |-> TRUE]
    /\ op = [c \in Clients |-> "none"]
    /\ pc = [c \in Clients |-> "idle"]
    /\ data = [c \in Clients |-> NoneV]
    /\ version = [c \in Clients |-> 0]
    /\ next_version = [c \in Clients |-> 0]
    /\ ret = [c \in Clients |-> NoneRet]
    /\ out = [c \in Clients |-> {}]
    /\ before = [c \in Clients |-> <<>>]

(***************************************************************************)
(* MongoDB queries on the collection.                                      *)
(***************************************************************************)
\* mutant: only the latest document is compared
find_config_latest(coll, d) ==
    {i \in 1..Len(coll) : coll[i].config = d /\ \A j \in 1..Len(coll) : j <= i}

\* find({"config": d}): the documents whose config is exactly d
find_config(coll, d) == {i \in 1..Len(coll) : coll[i].config = d}

\* find({"version": v})
find_version(coll, v) == {i \in 1..Len(coll) : coll[i].version = v}

\* mutant: the sort is ascending
find_last_ascending(coll) ==
    {i \in 1..Len(coll) : \A j \in 1..Len(coll) : coll[i].version <= coll[j].version}

\* find_one(sort=[("version", -1)]): the documents a descending sort may
\* put first (more than one when a version number is shared)
find_last(coll) ==
    {i \in 1..Len(coll) : \A j \in 1..Len(coll) : coll[j].version <= coll[i].version}

\* mutant: the + 1 is missing
NextVersion_without_increment(coll) ==
    IF find_last(coll) = {} THEN 1
    ELSE coll[CHOOSE i \in find_last(coll) : TRUE].version

\* next_version = 1 if not last_doc else last_doc['version'] + 1
NextVersion(coll) ==
    IF find_last(coll) = {} THEN 1
    ELSE coll[CHOOSE i \in find_last(coll) : TRUE].version + 1

RECURSIVE SortedByVersion(_, _)
\* find().sort("version", 1): coll's documents at the indexes left, in
\* ascending version; documents of one version keep their insertion order
SortedByVersion(coll, left) ==
    IF left = {} THEN <<>>
    ELSE LET i == CHOOSE j \in left :
                    \A l \in left : \/ coll[j].version < coll[l].version
                                    \/ coll[j].version = coll[l].version /\ j <= l
         IN  <<coll[i]>> \o SortedByVersion(coll, left \ {i})

(***************************************************************************)
(* Steps.  Goto moves a call to its next step.  Return ends it: the        *)
(* Caller's call is "done", with its frame, return value and output kept;  *)
(* an Instance is idle again and nothing is kept.  Enter is the first      *)
(* step of a call.                                                         *)
(***************************************************************************)
Frame(c, label, name, d, v, nv, r, printed) ==
    /\ pc' = [pc EXCEPT ![c] = label]
    /\ op' = [op EXCEPT ![c] = name]
    /\ data' = [data EXCEPT ![c] = d]
    /\ version' = [version EXCEPT ![c] = v]
    /\ next_version' = [next_version EXCEPT ![c] = nv]
    /\ ret' = [ret EXCEPT ![c] = r]
    /\ out' = [out EXCEPT ![c] = printed]

Goto(c, label, name, d, v, nv, printed) ==
    IF c = Caller
    THEN Frame(c, label, name, d, v, nv, NoneRet, printed)
    ELSE Frame(c, label, "none", d, v, nv, NoneRet, {})

Return(c, name, d, v, nv, r, printed) ==
    IF c = Caller
    THEN Frame(c, "done", name, d, v, nv, r, printed)
    ELSE Frame(c, "idle", "none", NoneV, 0, 0, NoneRet, {})

Enter(c) ==
    /\ pc[c] = "idle"
    /\ before' = [before EXCEPT ![c] = IF c = Caller THEN collection ELSE <<>>]

\* the Caller goes on after a call
resume(c) ==
    /\ pc[c] = "done"
    /\ Frame(c, "idle", "none", NoneV, 0, 0, NoneRet, {})
    /\ before' = [before EXCEPT ![c] = <<>>]
    /\ UNCHANGED <<collection, file, observer>>

\* mutant: the isinstance(data, dict) check is missing
read_config_without_dict_check(f, readable) ==
    IF ~readable \/ safe_load(f) = RaiseV
    THEN [val |-> NoneV, printed |-> {Msg("error_reading_yaml", 0, 0)}]
    ELSE [val |-> safe_load(f), printed |-> {}]

\* read_config of config_parser_versioned_rollback.py: the parsed file, or
\* None (with a message) when it cannot be opened or parsed or is no dict
read_config(f, readable) ==
    IF ~readable \/ safe_load(f) = RaiseV
    THEN [val |-> NoneV, printed |-> {Msg("error_reading_yaml", 0, 0)}]
    ELSE IF safe_load(f).t /= "map"
    THEN [val |-> NoneV, printed |-> {Msg("error_not_a_dictionary", 0, 0)}]
    ELSE [val |-> safe_load(f), printed |-> {}]

\* read_config of auto_config_save.py: whatever the file parses to
auto_read_config(f, readable) ==
    IF ~readable \/ safe_load(f) = RaiseV
    THEN [val |-> NoneV, printed |-> {Msg("error_reading_yaml", 0, 0)}]
    ELSE [val |-> safe_load(f), printed |-> {Msg("parser_results", 0, 0)}]

\* mutant: the comparison of event.src_path with CONFIG_FILE is missing
Handle_without_path_check(c, name, path, r, first) ==
    LET printed == {Msg("detected_changes", 0, 0)} \cup r.printed
    IN  IF ~Truthy(r.val)
        THEN Return(c, name, NoneV, 0, 0, NoneRet, printed) /\ UNCHANGED observer
        ELSE IF convert_numeric_values(r.val) = RaiseV
        THEN /\ Return(c, name, r.val, 0, 0, NoneRet, printed \cup {Msg("ValueError", 0, 0)})
             /\ observer' = [observer EXCEPT ![c] = FALSE]
        ELSE /\ Goto(c, first, name, convert_numeric_values(r.val), 0, 0, printed)
             /\ UNCHANGED observer

\* The body of both on_modified handlers up to the call of save_to_mongo.
\* r is what read_config returned; the save starts at step `first`.  A
\* ValueError of convert_numeric_values is caught nowhere: it ends the
\* watchdog thread that runs the handler.
Handle(c, name, path, r, first) ==
    LET printed == {Msg("detected_changes", 0, 0)} \cup r.printed
    IN  IF path /= CONFIG_FILE
        THEN Return(c, name, NoneV, 0, 0, NoneRet, {}) /\ UNCHANGED observer
        ELSE IF ~Truthy(r.val)
        THEN Return(c, name, NoneV, 0, 0, NoneRet, printed) /\ UNCHANGED observer
        ELSE IF convert_numeric_values(r.val) = RaiseV
        THEN /\ Return(c, name, r.val, 0, 0, NoneRet, printed \cup {Msg("ValueError", 0, 0)})
             /\ observer' = [observer EXCEPT ![c] = FALSE]
        ELSE /\ Goto(c, first, name, convert_numeric_values(r.val), 0, 0, printed)
             /\ UNCHANGED observer

\* ConfigFileHandler.on_modified of config_parser_versioned_rollback.py:
\* the path check, read_config and convert_numeric_values.  A notification
\* may come at any time and for either path (any write in the directory
\* sends one); the initial load of __main__ takes the same steps.
on_modified(c, path, readable) ==
    /\ Enter(c)
    /\ observer[c]
    /\ Handle(c, "on_modified", path, read_config(file, readable), "save_find")
    /\ UNCHANGED <<collection, file>>

\* ConfigFileHandler.on_modified of auto_config_save.py: its save_to_mongo
\* has no duplicate check and starts at the read of the last version
auto_on_modified(c, path, readable) ==
    /\ Enter(c)
    /\ observer[c]
    /\ Handle(c, "auto_on_modified", path, auto_read_config(file, readable), "save_last")
    /\ UNCHANGED <<collection, file>>

\* the except branch of save_to_mongo
SaveFailed(c) ==
    Return(c, op[c], data[c], 0, next_version[c], NoneRet,
           out[c] \cup {Msg("error_saving", 0, 0)})

\* mutant: the `return` after the "already exists" message is missing
save_find_without_return(c, up) ==
    /\ pc[c] = "save_find"
    /\ IF ~up
       THEN SaveFailed(c)
       ELSE IF find_config(collection, data[c]) /= {}
       THEN \E i \in find_config(collection, data[c]) :
                Goto(c, "save_last", op[c], data[c], 0, 0,
                     out[c] \cup {Msg("already_exists", collection[i].version, 0)})
       ELSE Goto(c, "save_last", op[c], data[c], 0, 0, out[c])
    /\ UNCHANGED <<collection, file, observer, before>>

\* save_to_mongo: existing_doc = collection.find_one({"config": data})
save_find(c, up) ==
    /\ pc[c] = "save_find"
    /\ IF ~up
       THEN SaveFailed(c)
       ELSE IF find_config(collection, data[c]) /= {}
       THEN \E i \in find_config(collection, data[c]) :
                Return(c, op[c], data[c], 0, 0, NoneRet,
                       out[c] \cup {Msg("already_exists", collection[i].version, 0)})
       ELSE Goto(c, "save_last", op[c], data[c], 0, 0, out[c])
    /\ UNCHANGED <<collection, file, observer, before>>

\* save_to_mongo: last_doc = collection.find_one(sort=[("version", -1)])
save_last(c, up) ==
    /\ pc[c] = "save_last"
    /\ IF ~up
       THEN SaveFailed(c)
       ELSE Goto(c, "save_insert", op[c], data[c], 0, NextVersion(collection), out[c])
    /\ UNCHANGED <<collection, file, observer, before>>

\* mutant: the document replaces one of the same version (an upsert on
\* "version") instead of being inserted
save_insert_upsert(c, up) ==
    /\ pc[c] = "save_insert"
    /\ IF ~up
       THEN /\ SaveFailed(c)
            /\ UNCHANGED collection
       ELSE /\ Len(collection) < MaxRecords
            /\ collection' =
                   IF find_version(collection, next_version[c]) = {}
                   THEN Append(collection, Doc(next_version[c], data[c], <<>>))
                   ELSE [i \in DOMAIN collection |->
                            IF collection[i].version = next_version[c]
                            THEN Doc(next_version[c], data[c], <<>>)
                            ELSE collection[i]]
            /\ Return(c, op[c], data[c], 0, next_version[c], NoneRet,
                      out[c] \cup {Msg("saved", next_version[c], 0)})
    /\ UNCHANGED <<file, observer, before>>

\* save_to_mongo: collection.insert_one(doc)
save_insert(c, up) ==
    /\ pc[c] = "save_insert"
    /\ IF ~up
       THEN /\ SaveFailed(c)
            /\ UNCHANGED collection
       ELSE /\ Len(collection) < MaxRecords
            /\ collection' = Append(collection, Doc(next_version[c], data[c], <<>>))
            /\ Return(c, op[c], data[c], 0, next_version[c], NoneRet,
                      out[c] \cup {Msg("saved", next_version[c], 0)})
    /\ UNCHANGED <<file, observer, before>>

\* the except branch of rollback_to_version for an error of pymongo
RollbackFailed(c, v) ==
    Return(c, "rollback", data[c], v, next_version[c],
           TupleRet(FALSE, Msg("pymongo_error", 0, 0)), {})

\* mutant: a version that is not found falls back to the latest document
rollback_to_latest(c, v, up) ==
    /\ Enter(c)
    /\ IF ~up
       THEN RollbackFailed(c, v)
       ELSE IF collection = <<>>
       THEN Return(c, "rollback", NoneV, v, 0,
                   TupleRet(FALSE, Msg("not_found", v, 0)), {})
       ELSE \E i \in IF find_version(collection, v) = {} THEN find_last(collection)
                      ELSE find_version(collection, v) :
                Goto(c, "rollback_last", "rollback", collection[i].config, v, 0, {})
    /\ UNCHANGED <<collection, file, observer>>

\* rollback (POST /config/rollback/<int:version>) up to
\* doc = collection.find_one({"version": version})
rollback(c, v, up) ==
    /\ Enter(c)
    /\ IF ~up
       THEN RollbackFailed(c, v)
       ELSE IF find_version(collection, v) = {}
       THEN Return(c, "rollback", NoneV, v, 0,
                   TupleRet(FALSE, Msg("not_found", v, 0)), {})
       ELSE \E i \in find_version(collection, v) :
                Goto(c, "rollback_last", "rollback", collection[i].config, v, 0, {})
    /\ UNCHANGED <<collection, file, observer>>

\* rollback_to_version: last_doc = collection.find_one(sort=[("version", -1)])
rollback_last(c, up) ==
    /\ pc[c] = "rollback_last"
    /\ IF ~up
       THEN RollbackFailed(c, version[c])
       ELSE Goto(c, "rollback_insert", "rollback", data[c], version[c],
                 NextVersion(collection), {})
    /\ UNCHANGED <<collection, file, observer, before>>

\* mutant: the rollback document goes through the duplicate check of
\* save_to_mongo
rollback_insert_dedup(c, up) ==
    /\ pc[c] = "rollback_insert"
    /\ IF ~up
       THEN /\ RollbackFailed(c, version[c])
            /\ UNCHANGED collection
       ELSE /\ Len(collection) < MaxRecords
            /\ collection' =
                   IF find_config(collection, data[c]) /= {} THEN collection
                   ELSE Append(collection, Doc(next_version[c], data[c], <<version[c]>>))
            /\ Goto(c, "rollback_write", "rollback", data[c], version[c],
                    next_version[c], {})
    /\ UNCHANGED <<file, observer, before>>

\* mutant: rolled_back_from is the new record's own version
rollback_insert_own_version(c, up) ==
    /\ pc[c] = "rollback_insert"
    /\ IF ~up
       THEN /\ RollbackFailed(c, version[c])
            /\ UNCHANGED collection
       ELSE /\ Len(collection) < MaxRecords
            /\ collection' = Append(collection,
                                    Doc(next_version[c], data[c], <<next_version[c]>>))
            /\ Goto(c, "rollback_write", "rollback", data[c], version[c],
                    next_version[c], {})
    /\ UNCHANGED <<file, observer, before>>

\* rollback_to_version: collection.insert_one(rollback_doc)
rollback_insert(c, up) ==
    /\ pc[c] = "rollback_insert"
    /\ IF ~up
       THEN /\ RollbackFailed(c, version[c])
            /\ UNCHANGED collection
       ELSE /\ Len(collection) < MaxRecords
            /\ collection' = Append(collection,
                                    Doc(next_version[c], data[c], <<version[c]>>))
            /\ Goto(c, "rollback_write", "rollback", data[c], version[c],
                    next_version[c], {})
    /\ UNCHANGED <<file, observer, before>>

\* what open(CONFIG_FILE, 'w') and yaml.dump can do: write the file; fail to
\* open it; fail after open() has truncated it
WriteOutcomes == {"written", "open_failed", "write_failed"}

\* mutant: an error of the file write is swallowed
rollback_write_swallowed(c, outcome) ==
    /\ pc[c] = "rollback_write"
    /\ file' = CASE outcome = "written" -> yaml_dump(data[c])
                 [] outcome = "open_failed" -> file
                 [] OTHER -> EmptyFile
    /\ Return(c, "rollback", data[c], version[c], next_version[c],
              TupleRet(TRUE, Msg("rolled_back", version[c], next_version[c])),
              {Msg("rollback_complete", version[c], 0)})
    /\ UNCHANGED <<collection, observer, before>>

\* rollback_to_version: the file write and the return
rollback_write(c, outcome) ==
    /\ pc[c] = "rollback_write"
    /\ IF outcome = "written"
       THEN /\ file' = yaml_dump(data[c])
            /\ Return(c, "rollback", data[c], version[c], next_version[c],
                      TupleRet(TRUE, Msg("rolled_back", version[c], next_version[c])),
                      {Msg("rollback_complete", version[c], 0)})
       ELSE /\ file' = IF outcome = "open_failed" THEN file ELSE EmptyFile
            /\ Return(c, "rollback", data[c], version[c], next_version[c],
                      TupleRet(FALSE, Msg("os_error", 0, 0)), {})
    /\ UNCHANGED <<collection, observer, before>>

\* fetch_latest_from_mongo, as the dict it returns for the document at i
fetch_latest_from_mongo(coll, i) ==
    DictRet(<<ApiDoc(coll[i].version, coll[i].config,
                     {"version", "timestamp", "config"}, <<>>)>>)

\* get_latest_config (GET /config)
get_latest_config(c, up) ==
    /\ Enter(c)
    /\ IF ~up
       THEN Return(c, "get_latest_config", NoneV, 0, 0, DictRet(<<>>),
                   {Msg("error_fetching", 0, 0)})
       ELSE IF find_last(collection) = {}
       THEN Return(c, "get_latest_config", NoneV, 0, 0, DictRet(<<>>), {})
       ELSE \E i \in find_last(collection) :
                Return(c, "get_latest_config", NoneV, 0, 0,
                       fetch_latest_from_mongo(collection, i), {})
    /\ UNCHANGED <<collection, file, observer>>

\* fetch_all_versions, as the list it returns
fetch_all_versions(coll) ==
    LET sorted == SortedByVersion(coll, DOMAIN coll)
    IN  ListRet([i \in DOMAIN sorted |->
                    ApiDoc(sorted[i].version, sorted[i].config,
                           {"version", "timestamp", "config", "rolled_back_from"},
                           sorted[i].rolled_back_from)])

\* get_config_history (GET /config/history) and view_all_configs
\* (GET /config/all)
get_config_history(c, route, up) ==
    /\ Enter(c)
    /\ IF ~up
       THEN Return(c, route, NoneV, 0, 0, ListRet(<<>>), {Msg("error_fetching", 0, 0)})
       ELSE Return(c, route, NoneV, 0, 0, fetch_all_versions(collection), {})
    /\ UNCHANGED <<collection, file, observer>>

\* an editor saves the configuration file
edit_file(f) ==
    /\ file' = f
    /\ UNCHANGED <<collection, observer, op, pc, data, version, next_version, ret, out,
                   before>>

\* the calls of config_parser_versioned_rollback.py
Start(c) ==
    \/ \E path \in Paths, readable \in BOOLEAN : on_modified(c, path, readable)
    \/ \E v \in Versions, up \in BOOLEAN : rollback(c, v, up)
    \/ \E up \in BOOLEAN : get_latest_config(c, up)
    \/ \E route \in {"get_config_history", "view_all_configs"}, up \in BOOLEAN :
           get_config_history(c, route, up)

\* the steps a call goes on with
Step(c) ==
    \/ \E up \in BOOLEAN : save_find(c, up)
    \/ \E up \in BOOLEAN : save_last(c, up)
    \/ \E up \in BOOLEAN : save_insert(c, up)
    \/ \E up \in BOOLEAN : rollback_last(c, up)
    \/ \E up \in BOOLEAN : rollback_insert(c, up)
    \/ \E outcome \in WriteOutcomes : rollback_write(c, outcome)

(***************************************************************************)
(* Spec: the calls of one caller, one after the other, of both scripts,    *)
(* while an editor changes the file.                                       *)
(***************************************************************************)
Next ==
    \/ Start(Caller)
    \/ \E path \in Paths, readable \in BOOLEAN : auto_on_modified(Caller, path, readable)
    \/ Step(Caller)
    \/ resume(Caller)
    \/ \E f \in UserFiles : edit_file(f)

Spec == Init /\ [][Next]_vars

(***************************************************************************)
(* SpecConc: the calls of two instances of                                 *)
(* config_parser_versioned_rollback.py on the same collection and file,    *)
(* interleaved step by step.                                               *)
(***************************************************************************)
ConcInit == Init /\ file \in ConcFiles

ConcNext ==
    \/ \E c \in Instances : Start(c)
    \/ \E c \in Instances : Step(c)
    \/ \E f \in ConcFiles : edit_file(f)

SpecConc == ConcInit /\ [][ConcNext]_vars

(***************************************************************************)
(* SpecNorm: convert_numeric_values alone: the file is read, and what was  *)
(* read is converted, and what was converted is converted again.           *)
(***************************************************************************)
NormInit ==
    /\ collection = <<>>
    /\ file \in NormFiles
    /\ observer = [c \in Clients |-> TRUE]
    /\ op = [c \in Clients |-> "none"]
    /\ pc = [c \in Clients |-> "idle"]
    /\ data = [c \in Clients |-> NoneV]
    /\ version = [c \in Clients |-> 0]
    /\ next_version = [c \in Clients |-> 0]
    /\ ret = [c \in Clients |-> NoneRet]
    /\ out = [c \in Clients |-> {}]
    /\ before = [c \in Clients |-> <<>>]

\* data = read_config(CONFIG_FILE)
apply_read_config(c) ==
    /\ pc[c] = "idle"
    /\ pc' = [pc EXCEPT ![c] = "read"]
    /\ data' = [data EXCEPT ![c] = read_config(file, TRUE).val]
    /\ UNCHANGED <<collection, file, observer, op, version, next_version, ret, out, before>>

\* data = convert_numeric_values(data), once and once more
apply_convert_numeric_values(c) ==
    /\ pc[c] \in {"read", "converted"}
    /\ pc' = [pc EXCEPT ![c] = IF pc[c] = "read" THEN "converted" ELSE "converted_again"]
    /\ data' = [data EXCEPT ![c] = convert_numeric_values(data[c])]
    /\ UNCHANGED <<collection, file, observer, op, version, next_version, ret, out, before>>

NormNext ==
    \/ apply_read_config(Caller)
    \/ apply_convert_numeric_values(Caller)

SpecNorm == NormInit /\ [][NormNext]_vars

(***************************************************************************)
(* Claims.                                                                 *)
(***************************************************************************)
\* the documents save_to_mongo inserted: those without rolled_back_from
Saved(coll) == {i \in DOMAIN coll : coll[i].rolled_back_from = <<>>}

\* C1: when two save calls with distinct new content run concurrently, in
\* every interleaving of their steps the two records they insert get
\* different version numbers: no two saved documents with different configs
\* share a version.
C1_DistinctContentDistinctVersions ==
    \A i, j \in Saved(collection) :
        collection[i].config /= collection[j].config
            => collection[i].version /= collection[j].version

\* C2: when two save calls with equal content that is not yet stored run
\* concurrently, at most one record is created for that content: no two
\* saved documents have the same config.
C2_OneRecordPerContent ==
    \A i, j \in Saved(collection) :
        i /= j => collection[i].config /= collection[j].config

\* the versions of coll, and whether coll holds config d or version v
VersionsOf(coll) == {coll[i].version : i \in DOMAIN coll}

HasConfig(coll, d) == \E i \in DOMAIN coll : coll[i].config = d

HasVersion(coll, v) == \E i \in DOMAIN coll : coll[i].version = v

\* the greatest version of coll, 0 for none
MaxVersion(coll) ==
    IF coll = <<>> THEN 0
    ELSE CHOOSE v \in VersionsOf(coll) : \A w \in VersionsOf(coll) : w <= v

Printed(c, kind) == \E m \in out[c] : m.kind = kind

\* the caller's call of on_modified called save_to_mongo(data) and it returned
SaveReturned ==
    /\ pc[Caller] = "done"
    /\ op[Caller] = "on_modified"
    /\ data[Caller].t = "map"
    /\ ~Printed(Caller, "ValueError")

\* the caller's call of rollback has returned
RollbackReturned == pc[Caller] = "done" /\ op[Caller] = "rollback"

\* C3: calls that do not overlap, from an empty store: the k-th document
\* stored has version k (the first version is 1, each next one is the
\* greatest version + 1).
C3_SequentialVersions ==
    \A k \in DOMAIN collection : collection[k].version = k

\* C3: reached: three saves of pairwise different documents are stored
C3_Witness ==
    /\ Len(collection) >= 3
    /\ \A i \in 1..3 : collection[i].rolled_back_from = <<>>
    /\ \A i, j \in 1..3 : i /= j => collection[i].config /= collection[j].config

C6_RollbackCreatesRecord ==
    ( /\ op[Caller] = "rollback"
      /\ pc[Caller] \in {"rollback_write", "done"}
      /\ HasVersion(before[Caller], version[Caller])
      /\ ret[Caller].msg.kind /= "pymongo_error" )
    => \E i \in DOMAIN before[Caller] :
          /\ before[Caller][i].version = version[Caller]
          /\ collection = Append(before[Caller],
                                 Doc(MaxVersion(before[Caller]) + 1,
                                     before[Caller][i].config,
                                     <<version[Caller]>>))

\* C6: reached: a rollback to content equal to the latest record's has
\* succeeded
C6_Witness ==
    /\ RollbackReturned
    /\ ret[Caller].ok
    /\ before[Caller][Len(before[Caller])].config = data[Caller]
    /\ Len(collection) = Len(before[Caller]) + 1

\* C7: rollback(v) for a version v that is not stored returns a failure
\* and changes nothing: the step that takes the call leaves the records
\* and the configuration file as they are.
C7_RollbackMissingVersion ==
    [][ ( /\ pc[Caller] = "idle"
          /\ pc'[Caller] /= "idle"
          /\ op'[Caller] = "rollback"
          /\ ~HasVersion(collection, version'[Caller]) )
        => /\ pc'[Caller] = "done"
           /\ ret'[Caller].t = "tuple"
           /\ ~ret'[Caller].ok
           /\ collection' = collection
           /\ file' = file ]_vars

\* C7: reached: a rollback to a version the non-empty store does not hold
\* has returned "not found"
C7_Witness ==
    /\ RollbackReturned
    /\ collection /= <<>>
    /\ ~HasVersion(collection, version[Caller])
    /\ ret[Caller] = TupleRet(FALSE, Msg("not_found", version[Caller], 0))

\* C8: the store is append-only: in every interleaving of the calls, a step
\* leaves every stored record where and as it is; the collection only grows.
C8_AppendOnly ==
    [][ /\ Len(collection') >= Len(collection)
        /\ \A i \in DOMAIN collection : collection'[i] = collection[i] ]_vars

\* C8: reached: saved and rollback records are stored while both instances
\* are in a call
C8_Witness ==
    /\ Len(collection) >= 2
    /\ \E i \in DOMAIN collection : collection[i].rolled_back_from /= <<>>
    /\ \A c \in Instances : pc[c] /= "idle"

\* C9: if the file write of rollback fails after the rollback record was
\* persisted (the file does not hold the rolled-back config after the
\* write step), the record stays persisted and the call returns a failure.
C9_WriteFailureSurfaced ==
    [][ (pc[Caller] = "rollback_write" /\ pc'[Caller] = "done")
        => /\ collection' = collection
           /\ collection' = Append(before[Caller],
                                   Doc(next_version[Caller], data[Caller],
                                       <<version[Caller]>>))
           /\ file' /= yaml_dump(data[Caller])
                 => (ret'[Caller].t = "tuple" /\ ~ret'[Caller].ok) ]_vars

\* C9: reached: the rollback record is stored, the file does not hold its
\* config, and the call has returned the failure
C9_Witness ==
    /\ RollbackReturned
    /\ ret[Caller] = TupleRet(FALSE, Msg("os_error", 0, 0))
    /\ collection = Append(before[Caller],
                           Doc(next_version[Caller], data[Caller], <<version[Caller]>>))
    /\ safe_load(file) /= data[Caller]

\* C10: whenever the storage is unavailable during save, fetchLatest or
\* fetchHistory, the caller can tell the failure from a successful save
\* (None), from an empty store ({}) and from an empty history ([]).
C10_StorageUnavailableSurfaced ==
    pc[Caller] = "done" =>
        /\ Printed(Caller, "error_saving") => ret[Caller] /= NoneRet
        /\ Printed(Caller, "error_fetching") =>
              (ret[Caller] /= DictRet(<<>>) /\ ret[Caller] /= ListRet(<<>>))

\* the caller's call of get_latest_config has returned without an error of
\* pymongo
LatestReturned ==
    /\ pc[Caller] = "done"
    /\ op[Caller] = "get_latest_config"
    /\ ~Printed(Caller, "error_fetching")

\* C11: with the storage answering, fetch_latest_from_mongo returns the
\* record with the greatest version, which is the record created last (by a
\* save or by a rollback), and returns {} exactly when the store holds no
\* record.
C11_FetchLatestHighestVersion ==
    LatestReturned =>
        /\ collection = before[Caller]
        /\ ret[Caller].t = "dict"
        /\ ret[Caller].docs = <<>> <=> collection = <<>>
        /\ collection /= <<>> =>
              /\ Len(ret[Caller].docs) = 1
              /\ ret[Caller].docs[1].version = MaxVersion(collection)
              /\ ret[Caller].docs[1].version = collection[Len(collection)].version
              /\ ret[Caller].docs[1].config = collection[Len(collection)].config

\* C11: reached: the latest of three records is a rollback record, not the
\* first record's config, and the fetch returned it
C11_Witness ==
    /\ LatestReturned
    /\ Len(collection) = 3
    /\ collection[3].rolled_back_from /= <<>>
    /\ collection[3].config /= collection[1].config
    /\ ret[Caller].docs[1].version = 3

\* the caller's read call (latest, history or all) has returned
ReadReturned ==
    /\ pc[Caller] = "done"
    /\ op[Caller] \in {"get_latest_config", "get_config_history", "view_all_configs"}

\* C12: every read operation returns, for a record a rollback created, the
\* field rolled_back_from with the rollback's target version, and for a
\* record a save created no rolled_back_from (a null counts as none).
C12_ReadsReturnRolledBackFrom ==
    ReadReturned =>
        \A i \in DOMAIN ret[Caller].docs : \A k \in DOMAIN collection :
            collection[k].version = ret[Caller].docs[i].version =>
                /\ ret[Caller].docs[i].rolled_back_from = collection[k].rolled_back_from
                /\ collection[k].rolled_back_from /= <<>> =>
                      "rolled_back_from" \in ret[Caller].docs[i].fields

\* the file does not parse, or parses to something that is no mapping
InvalidDocument(f) == safe_load(f) = RaiseV \/ safe_load(f).t /= "map"

\* C13: when on_modified of config_parser_versioned_rollback.py handles a
\* notification for the configuration file and the file cannot be read,
\* does not parse or is no mapping at top level, the call ends at once and
\* takes no store action: the records are unchanged.
C13_InvalidDocumentNoStoreAction ==
    [][ ( /\ pc[Caller] = "idle"
          /\ op'[Caller] = "on_modified"
          /\ Msg("detected_changes", 0, 0) \in out'[Caller]
          /\ \/ InvalidDocument(file)
             \/ Msg("error_reading_yaml", 0, 0) \in out'[Caller] )
        => /\ pc'[Caller] = "done"
           /\ collection' = collection
           /\ ret'[Caller] = NoneRet ]_vars

\* C13: reached: the store holds records, the file is a sequence at top
\* level, and the handler has returned without a new record
C13_Witness ==
    /\ pc[Caller] = "done"
    /\ op[Caller] = "on_modified"
    /\ Msg("error_not_a_dictionary", 0, 0) \in out[Caller]
    /\ safe_load(file).t = "list"
    /\ collection /= <<>>
    /\ collection = before[Caller]

\* the step by which the caller's on_modified takes a notification for the
\* configuration file and reads the file
IngestStep ==
    /\ pc[Caller] = "idle"
    /\ op'[Caller] = "on_modified"
    /\ Msg("detected_changes", 0, 0) \in out'[Caller]
    /\ Msg("error_reading_yaml", 0, 0) \notin out'[Caller]

\* C14: when on_modified handles a notification for the configuration file
\* and the file parses to a mapping, the empty mapping included, it
\* converts the mapping and calls save_to_mongo with it; and when that call
\* has returned (the storage answering), the store holds a record whose
\* config is the converted mapping.
C14_MappingIngestedAndSaved ==
    [][ /\ (IngestStep /\ safe_load(file).t = "map")
            => /\ pc'[Caller] = "save_find"
               /\ data'[Caller].t = "map"
               /\ data'[Caller] = convert_numeric_values(safe_load(file))
        /\ ( /\ pc[Caller] \in {"save_find", "save_last", "save_insert"}
             /\ op[Caller] = "on_modified"
             /\ pc'[Caller] = "done"
             /\ Msg("error_saving", 0, 0) \notin out'[Caller] )
            => HasConfig(collection', data[Caller]) ]_vars

\* the caller's call of a watch handler (of either script) has ended
HandlerEnded ==
    /\ pc[Caller] = "done"
    /\ op[Caller] \in {"on_modified", "auto_on_modified"}

\* C15: one bad event never stops later ones: whatever the file holds and
\* whatever the storage does, a watch handler returns normally (no
\* exception leaves it) and the watchdog thread keeps running, so that a
\* later notification is still handled.
C15_WatchLoopSurvives ==
    /\ observer[Caller]
    /\ HandlerEnded => ~Printed(Caller, "ValueError")

\* C16: in every reachable state, in every interleaving, a record with
\* rolled_back_from = w comes after a stored record of version w (the
\* target was there when the rollback record was created) and w is smaller
\* than the record's own version.
C16_RolledBackFromExists ==
    \A i \in DOMAIN collection :
        collection[i].rolled_back_from /= <<>> =>
            /\ collection[i].rolled_back_from[1] < collection[i].version
            /\ \E j \in 1..(i - 1) :
                   collection[j].version = collection[i].rolled_back_from[1]

\* C16: reached: a rollback to a rollback record, made while the other
\* instance is in a call
C16_Witness ==
    /\ Len(collection) = 3
    /\ collection[2].rolled_back_from /= <<>>
    /\ collection[3].rolled_back_from = <<collection[2].version>>
    /\ \E c \in Instances : pc[c] /= "idle"

\* C17: a notification whose path is not the configuration file's (a
\* sibling file of the watched directory) is ignored by the handlers of
\* both scripts: the handler returns at once, has read and printed
\* nothing, and the records and the file are as they were.
C17_SiblingPathIgnored ==
    [][ (\E path \in Paths \ {CONFIG_FILE}, readable \in BOOLEAN :
             \/ on_modified(Caller, path, readable)
             \/ auto_on_modified(Caller, path, readable))
        => /\ pc'[Caller] = "done"
           /\ collection' = collection
           /\ file' = file
           /\ data'[Caller] = NoneV
           /\ out'[Caller] = {}
           /\ ret'[Caller] = NoneRet ]_vars

\* C17: reached: a handler has returned without reading, while the file
\* holds a mapping that no record of the non-empty store holds
C17_Witness ==
    /\ HandlerEnded
    /\ out[Caller] = {}
    /\ collection /= <<>>
    /\ collection = before[Caller]
    /\ safe_load(file).t = "map"
    /\ Truthy(safe_load(file))
    /\ convert_numeric_values(safe_load(file)) /= RaiseV
    /\ ~HasConfig(collection, convert_numeric_values(safe_load(file)))

\* C18: convert_numeric_values is idempotent: for every document of nested
\* mappings whose scalars are integers, strings of digits and strings
\* without digits, converting the converted document changes nothing.
C18_NormalizeIdempotent ==
    [][ (pc[Caller] = "converted" /\ pc'[Caller] = "converted_again")
        => data'[Caller] = data[Caller] ]_vars

\* C18: reached: a document with a string of digits inside a nested mapping,
\* which the first conversion made an integer, has been converted twice
C18_Witness ==
    /\ pc[Caller] = "converted_again"
    /\ data[Caller] /= safe_load(file)
    /\ \E i \in DOMAIN data[Caller].m :
          /\ data[Caller].m[i].v.t = "map"
          /\ safe_load(file).m[i].v.m[1].v = StrV(<<"0", "7">>)
          /\ data[Caller].m[i].v.m[1].v = IntV(7)

\* C19: version numbers stay unique when a rollback is involved: in every
\* interleaving of a rollback with a save or with another rollback, a
\* rollback record shares its version with no other record.
C19_RollbackVersionsUnique ==
    \A i, j \in DOMAIN collection :
        (i /= j /\ collection[i].rolled_back_from /= <<>>)
            => collection[i].version /= collection[j].version

\* the caller's on_modified has ingested the file as the latest rollback
\* wrote it: the latest record at the call was a rollback record, the file
\* holds the dump of its config, that is what the handler read, and the
\* storage answered
EchoIngested ==
    /\ SaveReturned
    /\ ~Printed(Caller, "error_saving")
    /\ before[Caller] /= <<>>
    /\ before[Caller][Len(before[Caller])].rolled_back_from /= <<>>
    /\ file = yaml_dump(before[Caller][Len(before[Caller])].config)
    /\ data[Caller] = convert_numeric_values(safe_load(file))

\* C20: a rollback does not echo into a second version: when the watcher
\* ingests the file that a successful rollback wrote, the save finds the
\* content among the records and creates no record.
C20_RollbackEchoCreatesNoRecord ==
    EchoIngested => collection = before[Caller]

====
